---- MODULE Spec2Model ----
(***************************************************************************)
(* Model of the gomote "create" command (src/unnamed/part_000): the        *)
(* concurrent multi-instance orchestrator create(), which fans out count   *)
(* creation tasks on an errgroup, reads each task's progress stream,       *)
(* prints and records the instance IDs, optionally pushes GOROOT and runs  *)
(* make.bash/make.bat, and stores the group after a successful Wait.       *)
(*                                                                         *)
(* Standard error (the progress lines) is not part of the state.           *)
(* Strings that the code inspects (the builder type) are sequences of      *)
(* one-character strings; opaque strings are TLA+ strings.                 *)
(***************************************************************************)
EXTENDS Integers, Sequences, FiniteSets, Bags, TLC

\* ---------------------------------------------------------------- bounds
\* largest value of the -count flag that is explored
MaxCount == 2

\* largest number of positional arguments given to legacyCreate
MaxArgs == 2
\* largest number of entries of resj.Builders
MaxBuilders == 3

\* ------------------------------------------------------------ input sets
Tasks == 0 .. (MaxCount - 1)

\* instance IDs the provisioning service may hand out; "" is Go's zero string
InstanceIDs == {"gomote-a", "gomote-b"}

windows == <<"w", "i", "n", "d", "o", "w", "s">>
WindowsAmd64 == windows \o <<"-", "a", "m", "d", "6", "4">>
LinuxAmd64 == <<"l", "i", "n", "u", "x", "-", "a", "m", "d", "6", "4">>
\* builder types of the orchestrator runs
BuilderTypes == {WindowsAmd64, LinuxAmd64}
\* builder types of the single-instance runs that exercise the script choice
BuilderTypeNames ==
    { WindowsAmd64, LinuxAmd64, windows,
      <<"w", "i", "n", "d", "o", "w">>,
      <<"W", "i", "n", "d", "o", "w", "s">>,
      <<"w">> \o windows,
      <<"w", "i", "n">> \o windows \o <<"-", "3", "8", "6">>,
      <<"l", "i", "n", "u", "x", "-">> \o windows,
      <<"w", "i", "n", "d", "o", "w", "-", "s">>,
      <<>> }

\* the characters of the builder names of the catalog, in byte order
Alphabet == <<"-", "c", "e", "i", "j", "l", "m", "o", "p", "s">>
MiscCompile == <<"m", "i", "s", "c", "-", "c", "o", "m", "p", "i", "l", "e">>
\* builder names the farmer may list
CatalogNames ==
    { MiscCompile,
      MiscCompile \o <<"-", "j", "s">>,
      <<"m", "i", "s", "c">>,
      <<"j", "s">>,
      <<"j", "s", "-", "c">> }
\* resj.Hosts: one host of each kind
CatalogHosts ==
    [h \in {"host-reverse", "host-container", "host-vm", "host-bare"} |->
        [IsReverse |-> h = "host-reverse",
         ExpectNum |-> IF h = "host-reverse" THEN 2 ELSE 0,
         ContainerImage |-> IF h = "host-container" THEN "image" ELSE "",
         VMImage |-> IF h = "host-vm" THEN "vm-image" ELSE ""]]
\* the HostType of a builder: a key of resj.Hosts, or a host that is not listed
HostTypes == DOMAIN CatalogHosts \cup {"host-unlisted"}
\* the decoded responses: at most MaxBuilders builders, each with a host type
Catalogs ==
    { [Builders |-> f, Hosts |-> CatalogHosts] :
        f \in UNION { [ns -> HostTypes] :
                        ns \in { x \in SUBSET CatalogNames : Cardinality(x) <= MaxBuilders } } }
EmptyCatalog == [Builders |-> <<>>, Hosts |-> <<>>]

\* ---------------------------------------------------------------- errors
\* an error value: its message text and the task index printed in it (0: none)
Nil == [text |-> "nil", index |-> 0]
MkdirTempError ==
    [text |-> "failed to create a temporary directory for setup output", index |-> 0]
CreateGroupError == [text |-> "doCreateGroup", index |-> 0]
GetGOROOTError == [text |-> "getGOROOT", index |-> 0]
PushError == [text |-> "doPush", index |-> 0]
RunError == [text |-> "doRun", index |-> 0]
StoreGroupError == [text |-> "storeGroup", index |-> 0]
\* legacyCreate: fmt.Errorf("command does not support groups")
LegacyGroupError == [text |-> "command does not support groups", index |-> 0]
\* legacyCreate: fmt.Errorf("failed to create coordinator client: %v", err)
CoordinatorClientError == [text |-> "failed to create coordinator client", index |-> 0]
\* legacyCreate: fmt.Errorf("failed to create buildlet: %v", err)
CreateBuildletError == [text |-> "failed to create buildlet", index |-> 0]
\* fmt.Errorf("failed to create buildlet: %v", statusFromError(err))
CreateInstanceError(i) == [text |-> "failed to create buildlet", index |-> 0]
\* fmt.Errorf("failed to create buildlet (%d): %v", i+1, statusFromError(err))
RecvError(i) == [text |-> "failed to create buildlet", index |-> i + 1]

\* ------------------------------------------------------- pure functions
\* strings.Index(s, substr): first position (0-based) of substr in s, or -1
Index(s, substr) ==
    LET n == Len(substr)
        hits == { k \in 0 .. (Len(s) - n) : SubSeq(s, k + 1, k + n) = substr }
    IN  IF hits = {} THEN -1 ELSE CHOOSE k \in hits : \A h \in hits : k <= h

\* a variant of Contains that matches the substring at the start of s only
ContainsAtStart(s, substr) == Len(substr) <= Len(s) /\ SubSeq(s, 1, Len(substr)) = substr

\* strings.Contains(s, substr)
Contains(s, substr) == Index(s, substr) >= 0

\* cmd := "go/src/make.bash"; if strings.Contains(builderType, "windows") { cmd = "go/src/make.bat" }
Cmd(name) == IF Contains(name, windows) THEN "go/src/make.bat" ELSE "go/src/make.bash"

\* a variant of DetailedProgress that is set for every count
DetailedProgressAlways(n) == n >= 1

\* detailedProgress := count == 1
DetailedProgress(n) == n = 1

\* number of occurrences of x in the sequence s
Count(s, x) == Cardinality({ k \in 1 .. Len(s) : s[k] = x })

IsPrefix(s, t) == Len(s) <= Len(t) /\ SubSeq(t, 1, Len(s)) = s

\* a *gomote group: nil, or a group with its Instances
NilGroup == [present |-> FALSE, Instances |-> <<>>]
Group(insts) == [present |-> TRUE, Instances |-> insts]

\* ----------------------------------------------------------------- state
VARIABLES
    count,        \* -count flag
    setup,        \* -setup flag
    newGroup,     \* TRUE iff -new-group is not ""
    builderType,  \* fs.Arg(0)
    activeGroup,  \* the package-level activeGroup
    mpc,          \* position of create() itself
    next,         \* loop variable i of the launching loop
    tmpOutDir,    \* result of os.MkdirTemp
    group,        \* the local group
    groupMu,      \* TRUE iff groupMu is locked
    egErr,        \* errgroup: the first error returned by a task
    cancelled,    \* errgroup: ctx has been cancelled
    ret,          \* value returned by create() (meaningful when mpc = "done")
    pc,           \* position of each task
    inst,         \* each task's local inst
    old,          \* each task's read of group.Instances inside the append
    taskErr,      \* value returned by each task's function
    pushCalls,    \* per task: the doPush calls made, with their arguments
    runCalls,     \* per task: the doRun calls made, with their arguments
    created,      \* number of CreateInstance requests issued
    stdout,       \* the lines printed to standard output, as a bag: each task
                  \* prints one line and the order across tasks is not kept
    stored,       \* the Instances of each group handed to storeGroup
    \* legacyCreate
    nargs,        \* fs.NArg() of the arguments given to legacyCreate
    lpc,          \* position of legacyCreate
    lparsed,      \* TRUE once fs.Parse(args) has been called
    lclients,     \* number of coordinator clients created
    lrequests,    \* builder types of the CreateBuildletWithStatus requests made
    lout,         \* lines legacyCreate printed to standard output
    lret,         \* value returned by legacyCreate (meaningful when lpc = "done")
    \* builders()
    resj,         \* the decoded response: Builders and Hosts
    bpc,          \* position of builders()
    todo,         \* keys of resj.Builders the range loop has not visited yet
    bt            \* the result slice

inputs == <<count, setup, newGroup, builderType, activeGroup>>
mainv == <<mpc, next, tmpOutDir, ret>>
egv == <<egErr, cancelled>>
taskv == <<pc, inst, old, taskErr>>
callv == <<pushCalls, runCalls, created>>
outv == <<stdout, stored>>
legacyv == <<nargs, lpc, lparsed, lclients, lrequests, lout, lret>>
catv == <<resj, bpc, todo, bt>>
\* the state of create()
createv == <<mainv, group, groupMu, egv, taskv, callv, outv>>
vars == <<inputs, createv, legacyv, catv>>

\* ------------------------------------------------------------------ Init
\* the flags and arguments, and the package-level activeGroup
Inputs(counts, types) ==
    /\ count \in counts
    /\ setup \in BOOLEAN
    /\ newGroup \in BOOLEAN
    /\ builderType \in types
    /\ activeGroup \in {NilGroup, Group(<<"gomote-old">>)}

\* create() is entered
CreateStart ==
    /\ mpc = "mkdir"
    /\ next = 0
    /\ tmpOutDir = ""
    /\ group = NilGroup
    /\ groupMu = FALSE
    /\ egErr = Nil
    /\ cancelled = FALSE
    /\ ret = Nil
    /\ pc = [t \in Tasks |-> "start"]
    /\ inst = [t \in Tasks |-> ""]
    /\ old = [t \in Tasks |-> <<>>]
    /\ taskErr = [t \in Tasks |-> Nil]
    /\ pushCalls = [t \in Tasks |-> <<>>]
    /\ runCalls = [t \in Tasks |-> <<>>]
    /\ created = 0
    /\ stdout = EmptyBag
    /\ stored = <<>>

\* legacyCreate at position p, nothing done yet
LegacyAt(p) ==
    /\ lpc = p
    /\ lparsed = FALSE
    /\ lclients = 0
    /\ lrequests = <<>>
    /\ lout = <<>>
    /\ lret = Nil

\* builders() at position p, nothing done yet
BuildersAt(p) ==
    /\ bpc = p
    /\ todo = {}
    /\ bt = <<>>

\* an invocation of "gomote create": legacyCreate and builders() are not called
Start(counts, types) ==
    /\ Inputs(counts, types)
    /\ CreateStart
    /\ nargs = 1 /\ LegacyAt("idle")
    /\ resj = EmptyCatalog /\ BuildersAt("idle")

Init == Start(1 .. MaxCount, BuilderTypes)

\* ------------------------------------------------- create(): before tasks
\* if setup { tmpOutDir, err = os.MkdirTemp("", "gomote") ... }
MkdirTemp ==
    /\ mpc = "mkdir"
    /\ \/ /\ ~setup
          /\ mpc' = "group"
          /\ UNCHANGED <<tmpOutDir, ret>>
       \/ /\ setup
          /\ tmpOutDir' = "gomote-tmp"
          /\ mpc' = "group"
          /\ UNCHANGED ret
       \/ /\ setup
          /\ ret' = MkdirTempError
          /\ mpc' = "done"
          /\ UNCHANGED tmpOutDir
    /\ UNCHANGED <<legacyv, catv, inputs, next, group, groupMu, egv, taskv, callv, outv>>

\* group := activeGroup; if newGroup != "" { group, err = doCreateGroup(newGroup) ... }
ResolveGroup ==
    /\ mpc = "group"
    /\ \/ /\ ~newGroup
          /\ group' = activeGroup
          /\ mpc' = "launch"
          /\ UNCHANGED ret
       \/ /\ newGroup
          /\ group' = Group(<<>>)
          /\ mpc' = "launch"
          /\ UNCHANGED ret
       \/ /\ newGroup
          /\ ret' = CreateGroupError
          /\ mpc' = "done"
          /\ UNCHANGED group
    /\ UNCHANGED <<legacyv, catv, inputs, next, tmpOutDir, groupMu, egv, taskv, callv, outv>>

\* a variant of Launch that stops launching once a task has failed
LaunchUntilError ==
    /\ mpc = "launch"
    /\ IF next < count /\ egErr = Nil
       THEN /\ pc' = [pc EXCEPT ![next] = "create"]
            /\ next' = next + 1
            /\ UNCHANGED mpc
       ELSE /\ mpc' = "wait"
            /\ UNCHANGED <<pc, next>>
    /\ UNCHANGED <<legacyv, catv, inputs, tmpOutDir, ret, group, groupMu, egv, inst, old,
                   taskErr, callv, outv>>

\* for i := 0; i < count; i++ { i := i; eg.Go(func() error {...}) }
Launch ==
    /\ mpc = "launch"
    /\ IF next < count
       THEN /\ pc' = [pc EXCEPT ![next] = "create"]
            /\ next' = next + 1
            /\ UNCHANGED mpc
       ELSE /\ mpc' = "wait"
            /\ UNCHANGED <<pc, next>>
    /\ UNCHANGED <<legacyv, catv, inputs, tmpOutDir, ret, group, groupMu, egv, inst, old, taskErr,
                   callv, outv>>

\* ------------------------------------------------------------- the tasks
\* a variant of Return in which the tasks' errors are dropped (a plain wait group)
ReturnDropsError(t, e) ==
    /\ pc' = [pc EXCEPT ![t] = "done"]
    /\ taskErr' = [taskErr EXCEPT ![t] = e]
    /\ UNCHANGED <<egErr, cancelled>>

\* a variant of Return that records the first error and leaves ctx alone
ReturnWithoutCancel(t, e) ==
    /\ pc' = [pc EXCEPT ![t] = "done"]
    /\ taskErr' = [taskErr EXCEPT ![t] = e]
    /\ egErr' = IF e # Nil /\ egErr = Nil THEN e ELSE egErr
    /\ UNCHANGED cancelled

\* a variant of Return in which the latest error replaces the recorded one
ReturnLastErrorWins(t, e) ==
    /\ pc' = [pc EXCEPT ![t] = "done"]
    /\ taskErr' = [taskErr EXCEPT ![t] = e]
    /\ IF e # Nil
       THEN egErr' = e /\ cancelled' = TRUE
       ELSE UNCHANGED <<egErr, cancelled>>

\* the task's function returns e: errgroup records the first non-nil error
\* and cancels ctx (errOnce.Do in errgroup.Group.Go)
Return(t, e) ==
    /\ pc' = [pc EXCEPT ![t] = "done"]
    /\ taskErr' = [taskErr EXCEPT ![t] = e]
    /\ IF e # Nil /\ egErr = Nil
       THEN egErr' = e /\ cancelled' = TRUE
       ELSE UNCHANGED <<egErr, cancelled>>

\* stream, err := client.CreateInstance(ctx, ...), err == nil
CreateInstanceOK(t) ==
    /\ pc[t] = "create"
    /\ created' = created + 1
    /\ pc' = [pc EXCEPT ![t] = "recv"]
    /\ UNCHANGED <<legacyv, catv, inputs, mainv, group, groupMu, egv, inst, old, taskErr,
                   pushCalls, runCalls, outv>>

\* stream, err := client.CreateInstance(ctx, ...), err != nil
CreateInstanceErr(t) ==
    /\ pc[t] = "create"
    /\ created' = created + 1
    /\ Return(t, CreateInstanceError(t))
    /\ UNCHANGED <<legacyv, catv, inputs, mainv, group, groupMu, inst, old, pushCalls, runCalls, outv>>

\* update, err := stream.Recv(); case err == io.EOF: break updateLoop
RecvEOF(t) ==
    /\ pc[t] = "recv"
    /\ pc' = [pc EXCEPT ![t] = "print"]
    /\ UNCHANGED <<legacyv, catv, inputs, mainv, group, groupMu, egv, inst, old, taskErr, callv, outv>>

\* case err != nil: return fmt.Errorf("failed to create buildlet (%d): %v", i+1, ...)
RecvErr(t) ==
    /\ pc[t] = "recv"
    /\ Return(t, RecvError(t))
    /\ UNCHANGED <<legacyv, catv, inputs, mainv, group, groupMu, inst, old, callv, outv>>

\* an update whose status is not COMPLETE: a "# still creating" line on standard
\* error when status is set, no case of the switch otherwise; the loop goes on
RecvPending(t) ==
    /\ pc[t] = "recv"
    /\ UNCHANGED vars

\* a variant of RecvComplete that leaves the update loop with the recorded ID
RecvCompleteBreaks(t, id) ==
    /\ pc[t] = "recv"
    /\ inst' = [inst EXCEPT ![t] = id]
    /\ pc' = [pc EXCEPT ![t] = "print"]
    /\ UNCHANGED <<legacyv, catv, inputs, mainv, group, groupMu, egv, old, taskErr, callv, outv>>

\* case update.GetStatus() == COMPLETE: inst = update.GetInstance().GetGomoteId()
RecvComplete(t, id) ==
    /\ pc[t] = "recv"
    /\ inst' = [inst EXCEPT ![t] = id]
    /\ UNCHANGED <<legacyv, catv, inputs, mainv, group, groupMu, egv, pc, old, taskErr, callv, outv>>

\* a variant of Println that prints nothing for an empty inst
PrintlnSkipsEmpty(t) ==
    /\ pc[t] = "print"
    /\ stdout' = IF inst[t] = "" THEN stdout ELSE stdout (+) SetToBag({inst[t]})
    /\ pc' = [pc EXCEPT ![t] = IF group.present THEN "lock" ELSE "setup"]
    /\ UNCHANGED <<legacyv, catv, inputs, mainv, group, groupMu, egv, inst, old, taskErr, callv,
                   stored>>

\* fmt.Println(inst); if group != nil {...}
Println(t) ==
    /\ pc[t] = "print"
    /\ stdout' = stdout (+) SetToBag({inst[t]})
    /\ pc' = [pc EXCEPT ![t] = IF group.present THEN "lock" ELSE "setup"]
    /\ UNCHANGED <<legacyv, catv, inputs, mainv, group, groupMu, egv, inst, old, taskErr, callv,
                   stored>>

\* a variant of Lock that does not wait for the mutex
LockWithoutMutex(t) ==
    /\ pc[t] = "lock"
    /\ groupMu' = TRUE
    /\ old' = [old EXCEPT ![t] = group.Instances]
    /\ pc' = [pc EXCEPT ![t] = "locked"]
    /\ UNCHANGED <<legacyv, catv, inputs, mainv, group, egv, inst, taskErr, callv, outv>>

\* groupMu.Lock(), and the read of group.Instances that append starts with
Lock(t) ==
    /\ pc[t] = "lock"
    /\ ~groupMu
    /\ groupMu' = TRUE
    /\ old' = [old EXCEPT ![t] = group.Instances]
    /\ pc' = [pc EXCEPT ![t] = "locked"]
    /\ UNCHANGED <<legacyv, catv, inputs, mainv, group, egv, inst, taskErr, callv, outv>>

\* a variant of AppendUnlock that appends the entry twice
AppendTwice(t) ==
    /\ pc[t] = "locked"
    /\ group' = [group EXCEPT !.Instances = Append(Append(old[t], inst[t]), inst[t])]
    /\ old' = [old EXCEPT ![t] = <<>>]
    /\ groupMu' = FALSE
    /\ pc' = [pc EXCEPT ![t] = "setup"]
    /\ UNCHANGED <<legacyv, catv, inputs, mainv, egv, inst, taskErr, callv, outv>>

\* a variant of AppendUnlock that assigns the one new entry instead of appending
AppendOverwrites(t) ==
    /\ pc[t] = "locked"
    /\ group' = [group EXCEPT !.Instances = <<inst[t]>>]
    /\ old' = [old EXCEPT ![t] = <<>>]
    /\ groupMu' = FALSE
    /\ pc' = [pc EXCEPT ![t] = "setup"]
    /\ UNCHANGED <<legacyv, catv, inputs, mainv, egv, inst, taskErr, callv, outv>>

\* group.Instances = append(group.Instances, inst); groupMu.Unlock()
AppendUnlock(t) ==
    /\ pc[t] = "locked"
    /\ group' = [group EXCEPT !.Instances = Append(old[t], inst[t])]
    /\ old' = [old EXCEPT ![t] = <<>>]
    /\ groupMu' = FALSE
    /\ pc' = [pc EXCEPT ![t] = "setup"]
    /\ UNCHANGED <<legacyv, catv, inputs, mainv, egv, inst, taskErr, callv, outv>>

\* if !setup { return nil }
NoSetup(t) ==
    /\ pc[t] = "setup"
    /\ ~setup
    /\ Return(t, Nil)
    /\ UNCHANGED <<legacyv, catv, inputs, mainv, group, groupMu, inst, old, callv, outv>>

\* goroot, err := getGOROOT(); if err != nil { return err }
GetGOROOTErr(t) ==
    /\ pc[t] = "setup"
    /\ setup
    /\ Return(t, GetGOROOTError)
    /\ UNCHANGED <<legacyv, catv, inputs, mainv, group, groupMu, inst, old, callv, outv>>

\* a call doPush(ctx, inst, goroot, false, detailedProgress) and the error it returns
PushCall(t, e) ==
    [inst |-> inst[t], goroot |-> "GOROOT", dryRun |-> FALSE,
     detailedProgress |-> DetailedProgress(count), err |-> e]

\* a variant of PushOK that does not look at the setup flag
PushOKWithoutFlag(t) ==
    /\ pc[t] = "setup"
    /\ pushCalls' = [pushCalls EXCEPT ![t] = Append(@, PushCall(t, Nil))]
    /\ pc' = [pc EXCEPT ![t] = "run"]
    /\ UNCHANGED <<legacyv, catv, inputs, mainv, group, groupMu, egv, inst, old, taskErr, runCalls,
                   created, outv>>

\* setup is set and getGOROOT succeeded (both local to the task);
\* doPush(ctx, inst, goroot, false, detailedProgress) returns nil
PushOK(t) ==
    /\ pc[t] = "setup"
    /\ setup
    /\ pushCalls' = [pushCalls EXCEPT ![t] = Append(@, PushCall(t, Nil))]
    /\ pc' = [pc EXCEPT ![t] = "run"]
    /\ UNCHANGED <<legacyv, catv, inputs, mainv, group, groupMu, egv, inst, old, taskErr, runCalls,
                   created, outv>>

\* a variant of PushErr that goes on to doRun after the failed push
PushErrContinues(t) ==
    /\ pc[t] = "setup"
    /\ setup
    /\ pushCalls' = [pushCalls EXCEPT ![t] = Append(@, PushCall(t, PushError))]
    /\ pc' = [pc EXCEPT ![t] = "run"]
    /\ UNCHANGED <<legacyv, catv, inputs, mainv, group, groupMu, egv, inst, old, taskErr,
                   runCalls, created, outv>>

\* setup is set and getGOROOT succeeded;
\* if err := doPush(...); err != nil { return err }
PushErr(t) ==
    /\ pc[t] = "setup"
    /\ setup
    /\ pushCalls' = [pushCalls EXCEPT ![t] = Append(@, PushCall(t, PushError))]
    /\ Return(t, PushError)
    /\ UNCHANGED <<legacyv, catv, inputs, mainv, group, groupMu, inst, old, runCalls, created, outv>>

\* a call doRun(ctx, inst, tmpOutDir, cmd, []string{}, count == 1) and the error it returns
RunCall(t, e) ==
    [inst |-> inst[t], dir |-> tmpOutDir, cmd |-> Cmd(builderType), args |-> <<>>,
     detailedProgress |-> (count = 1), err |-> e]

\* return doRun(ctx, inst, tmpOutDir, cmd, []string{}, count == 1), nil
RunOK(t) ==
    /\ pc[t] = "run"
    /\ runCalls' = [runCalls EXCEPT ![t] = Append(@, RunCall(t, Nil))]
    /\ Return(t, Nil)
    /\ UNCHANGED <<legacyv, catv, inputs, mainv, group, groupMu, inst, old, pushCalls, created, outv>>

\* return doRun(...), an error
RunErr(t) ==
    /\ pc[t] = "run"
    /\ runCalls' = [runCalls EXCEPT ![t] = Append(@, RunCall(t, RunError))]
    /\ Return(t, RunError)
    /\ UNCHANGED <<legacyv, catv, inputs, mainv, group, groupMu, inst, old, pushCalls, created, outv>>

\* --------------------------------------------------- create(): after tasks
AllDone == \A t \in Tasks : t < count => pc[t] = "done"

\* a variant of Wait that does not wait for the tasks
WaitWithoutJoin ==
    /\ mpc = "wait"
    /\ cancelled' = TRUE
    /\ IF egErr # Nil
       THEN /\ ret' = egErr
            /\ mpc' = "done"
       ELSE /\ mpc' = "store"
            /\ UNCHANGED ret
    /\ UNCHANGED <<legacyv, catv, inputs, next, tmpOutDir, group, groupMu, egErr, taskv,
                   callv, outv>>

\* a variant of Wait whose error is not looked at
WaitIgnoresError ==
    /\ mpc = "wait"
    /\ AllDone
    /\ cancelled' = TRUE
    /\ mpc' = "store"
    /\ UNCHANGED <<legacyv, catv, inputs, next, tmpOutDir, ret, group, groupMu, egErr, taskv, callv, outv>>

\* if err := eg.Wait(); err != nil { return err }
\* (Wait returns when every task has returned, cancels ctx, yields the first error)
Wait ==
    /\ mpc = "wait"
    /\ AllDone
    /\ cancelled' = TRUE
    /\ IF egErr # Nil
       THEN /\ ret' = egErr
            /\ mpc' = "done"
       ELSE /\ mpc' = "store"
            /\ UNCHANGED ret
    /\ UNCHANGED <<legacyv, catv, inputs, next, tmpOutDir, group, groupMu, egErr, taskv, callv, outv>>

\* if group != nil { return storeGroup(group) }, storeGroup succeeding
StoreGroupOK ==
    /\ mpc = "store"
    /\ group.present
    /\ stored' = Append(stored, group.Instances)
    /\ ret' = Nil
    /\ mpc' = "done"
    /\ UNCHANGED <<legacyv, catv, inputs, next, tmpOutDir, group, groupMu, egv, taskv, callv, stdout>>

\* if group != nil { return storeGroup(group) }, storeGroup failing
StoreGroupErr ==
    /\ mpc = "store"
    /\ group.present
    /\ stored' = Append(stored, group.Instances)
    /\ ret' = StoreGroupError
    /\ mpc' = "done"
    /\ UNCHANGED <<legacyv, catv, inputs, next, tmpOutDir, group, groupMu, egv, taskv, callv, stdout>>

\* return nil (group == nil)
ReturnNil ==
    /\ mpc = "store"
    /\ ~group.present
    /\ ret' = Nil
    /\ mpc' = "done"
    /\ UNCHANGED <<legacyv, catv, inputs, next, tmpOutDir, group, groupMu, egv, taskv, callv, outv>>

\* ---------------------------------------------------------- legacyCreate
\* a variant of LegacyCheckGroup that goes on whatever activeGroup is
LegacyWithoutGroupCheck ==
    /\ lpc = "check"
    /\ lpc' = "parse"
    /\ UNCHANGED <<inputs, createv, catv, nargs, lparsed, lclients, lrequests, lout, lret>>

\* if activeGroup != nil { return fmt.Errorf("command does not support groups") }
LegacyCheckGroup ==
    /\ lpc = "check"
    /\ IF activeGroup.present
       THEN /\ lret' = LegacyGroupError
            /\ lpc' = "done"
       ELSE /\ lpc' = "parse"
            /\ UNCHANGED lret
    /\ UNCHANGED <<inputs, createv, catv, nargs, lparsed, lclients, lrequests, lout>>

\* fs.Parse(args); if fs.NArg() != 1 { fs.Usage() }  (Usage ends in os.Exit(1))
LegacyParse ==
    /\ lpc = "parse"
    /\ lparsed' = TRUE
    /\ lpc' = IF nargs # 1 THEN "exit" ELSE "client"
    /\ UNCHANGED <<inputs, createv, catv, nargs, lclients, lrequests, lout, lret>>

\* cc, err := buildlet.NewCoordinatorClientFromFlags(), err == nil
LegacyClientOK ==
    /\ lpc = "client"
    /\ lclients' = lclients + 1
    /\ lpc' = "create"
    /\ UNCHANGED <<inputs, createv, catv, nargs, lparsed, lrequests, lout, lret>>

\* cc, err := buildlet.NewCoordinatorClientFromFlags(); if err != nil { return ... }
LegacyClientErr ==
    /\ lpc = "client"
    /\ lret' = CoordinatorClientError
    /\ lpc' = "done"
    /\ UNCHANGED <<inputs, createv, catv, nargs, lparsed, lclients, lrequests, lout>>

\* client, err := cc.CreateBuildletWithStatus(builderType, ...), err == nil;
\* fmt.Println(client.RemoteName()); return nil
LegacyCreateOK(name) ==
    /\ lpc = "create"
    /\ lrequests' = Append(lrequests, builderType)
    /\ lout' = Append(lout, name)
    /\ lret' = Nil
    /\ lpc' = "done"
    /\ UNCHANGED <<inputs, createv, catv, nargs, lparsed, lclients>>

\* client, err := cc.CreateBuildletWithStatus(...); if err != nil { return ... }
LegacyCreateErr ==
    /\ lpc = "create"
    /\ lrequests' = Append(lrequests, builderType)
    /\ lret' = CreateBuildletError
    /\ lpc' = "done"
    /\ UNCHANGED <<inputs, createv, catv, nargs, lparsed, lclients, lout>>

\* an invocation of legacyCreate(args)
InitLegacy ==
    /\ Inputs({1}, BuilderTypeNames)
    /\ ~setup /\ ~newGroup
    /\ CreateStart
    /\ nargs \in 0 .. MaxArgs
    /\ LegacyAt("check")
    /\ resj = EmptyCatalog /\ BuildersAt("idle")

NextLegacy ==
    \/ LegacyCheckGroup
    \/ LegacyParse
    \/ LegacyClientOK
    \/ LegacyClientErr
    \/ \E name \in InstanceIDs : LegacyCreateOK(name)
    \/ LegacyCreateErr

LegacySpec == InitLegacy /\ [][NextLegacy]_vars

\* -------------------------------------------------------------- builders()
\* strings.HasPrefix(s, prefix)
HasPrefix(s, prefix) ==
    Len(s) >= Len(prefix) /\ SubSeq(s, 1, Len(prefix)) = prefix

\* the byte value of a character, as its rank in Alphabet
Ord(c) == CHOOSE k \in 1 .. Len(Alphabet) : Alphabet[k] = c

\* a < b on strings: bytewise, a proper prefix comes first
RECURSIVE StringLess(_, _)
StringLess(a, b) ==
    IF b = <<>> THEN FALSE
    ELSE IF a = <<>> THEN TRUE
    ELSE IF Head(a) = Head(b) THEN StringLess(Tail(a), Tail(b))
    ELSE Ord(Head(a)) < Ord(Head(b))

\* less of line 76: bt[i].Name < bt[j].Name
Less(x, y) == StringLess(x.Name, y.Name)

\* s with x put before the first entry that is not less than x
RECURSIVE Insert(_, _)
Insert(s, x) ==
    IF s = <<>> THEN <<x>>
    ELSE IF Less(Head(s), x) THEN <<Head(s)>> \o Insert(Tail(s), x)
    ELSE <<x>> \o s

\* sort.Slice(s, less): s reordered so that less holds along it
RECURSIVE SortSlice(_)
SortSlice(s) ==
    IF s = <<>> THEN <<>>
    ELSE Insert(SortSlice(Tail(s)), Head(s))

\* res, err := http.Get(...); if err != nil { log.Fatal(err) }
HttpGetErr ==
    /\ bpc = "get"
    /\ bpc' = "fatal"
    /\ UNCHANGED <<inputs, createv, legacyv, resj, todo, bt>>

HttpGetOK ==
    /\ bpc = "get"
    /\ bpc' = "status"
    /\ UNCHANGED <<inputs, createv, legacyv, resj, todo, bt>>

\* if res.StatusCode != 200 { log.Fatalf(...) }
StatusNot200 ==
    /\ bpc = "status"
    /\ bpc' = "fatal"
    /\ UNCHANGED <<inputs, createv, legacyv, resj, todo, bt>>

Status200 ==
    /\ bpc = "status"
    /\ bpc' = "decode"
    /\ UNCHANGED <<inputs, createv, legacyv, resj, todo, bt>>

\* if err := json.NewDecoder(res.Body).Decode(&resj); err != nil { log.Fatalf(...) }
DecodeErr ==
    /\ bpc = "decode"
    /\ bpc' = "fatal"
    /\ UNCHANGED <<inputs, createv, legacyv, resj, todo, bt>>

\* Decode fills resj with the catalog c; the range loop has every key to visit
DecodeOK(c) ==
    /\ bpc = "decode"
    /\ resj' = c
    /\ todo' = DOMAIN c.Builders
    /\ bpc' = "range"
    /\ UNCHANGED <<inputs, createv, legacyv, bt>>

\* one iteration of for b, bi := range resj.Builders, in any order of the keys
Range(b) ==
    /\ bpc = "range"
    /\ b \in todo
    /\ todo' = todo \ {b}
    /\ LET bi == resj.Builders[b]
       IN  IF HasPrefix(b, MiscCompile)
           THEN bt' = bt
           ELSE IF bi \notin DOMAIN resj.Hosts
           THEN bt' = bt
           ELSE LET hi == resj.Hosts[bi]
                IN  IF ~hi.IsReverse /\ hi.ContainerImage = "" /\ hi.VMImage = ""
                    THEN bt' = bt
                    ELSE bt' = Append(bt, [Name |-> b,
                                           IsReverse |-> hi.IsReverse,
                                           ExpectNum |-> hi.ExpectNum])
    /\ UNCHANGED <<inputs, createv, legacyv, resj, bpc>>

\* a variant of Sort that returns bt in the order of the appends
SortSkipped ==
    /\ bpc = "range"
    /\ todo = {}
    /\ bt' = bt
    /\ bpc' = "done"
    /\ UNCHANGED <<inputs, createv, legacyv, resj, todo>>

\* the loop is over: sort.Slice(bt, less); return
Sort ==
    /\ bpc = "range"
    /\ todo = {}
    /\ bt' = SortSlice(bt)
    /\ bpc' = "done"
    /\ UNCHANGED <<inputs, createv, legacyv, resj, todo>>

\* a call of builders()
InitBuilders ==
    /\ Inputs({1}, {LinuxAmd64})
    /\ ~setup /\ ~newGroup /\ activeGroup = NilGroup
    /\ CreateStart
    /\ nargs = 1 /\ LegacyAt("idle")
    /\ resj = EmptyCatalog /\ BuildersAt("get")

NextBuilders ==
    \/ HttpGetErr
    \/ HttpGetOK
    \/ StatusNot200
    \/ Status200
    \/ DecodeErr
    \/ \E c \in Catalogs : DecodeOK(c)
    \/ \E b \in CatalogNames : Range(b)
    \/ Sort

BuildersSpec == InitBuilders /\ [][NextBuilders]_vars

\* ------------------------------------------------------------------ Next
Next ==
    \/ MkdirTemp
    \/ ResolveGroup
    \/ Launch
    \/ \E t \in Tasks : CreateInstanceOK(t)
    \/ \E t \in Tasks : CreateInstanceErr(t)
    \/ \E t \in Tasks : RecvEOF(t)
    \/ \E t \in Tasks : RecvErr(t)
    \/ \E t \in Tasks : RecvPending(t)
    \/ \E t \in Tasks : \E id \in InstanceIDs : RecvComplete(t, id)
    \/ \E t \in Tasks : Println(t)
    \/ \E t \in Tasks : Lock(t)
    \/ \E t \in Tasks : AppendUnlock(t)
    \/ \E t \in Tasks : NoSetup(t)
    \/ \E t \in Tasks : GetGOROOTErr(t)
    \/ \E t \in Tasks : PushOK(t)
    \/ \E t \in Tasks : PushErr(t)
    \/ \E t \in Tasks : RunOK(t)
    \/ \E t \in Tasks : RunErr(t)
    \/ Wait
    \/ StoreGroupOK
    \/ StoreGroupErr
    \/ ReturnNil

Spec == Init /\ [][Next]_vars

TypeOK ==
    /\ count \in 1 .. MaxCount
    /\ next \in 0 .. count
    /\ created \in 0 .. count
    /\ \A t \in Tasks : inst[t] \in InstanceIDs \cup {""}

\* -------------------------------------------------------- specifications
\* single-instance runs over the builder-type names, for the script choice
InitNames == Start({1}, BuilderTypeNames)
SpecNames == InitNames /\ [][Next]_vars

\* Scheduling: create() and every goroutine keep running; a call that blocks on
\* the service (stream.Recv, doPush, doRun) may never return while ctx is live,
\* and returns an error once ctx is cancelled.
Fairness ==
    /\ WF_vars(MkdirTemp) /\ WF_vars(ResolveGroup) /\ WF_vars(Launch)
    /\ WF_vars(Wait) /\ WF_vars(StoreGroupOK \/ StoreGroupErr) /\ WF_vars(ReturnNil)
    /\ \A t \in Tasks :
        /\ WF_vars(CreateInstanceOK(t) \/ CreateInstanceErr(t))
        /\ WF_vars(cancelled /\ RecvErr(t))
        /\ WF_vars(Println(t))
        /\ WF_vars(Lock(t))
        /\ WF_vars(AppendUnlock(t))
        /\ WF_vars(NoSetup(t))
        /\ WF_vars(cancelled /\ (GetGOROOTErr(t) \/ PushErr(t)))
        /\ WF_vars(cancelled /\ RunErr(t))

\* runs with setup and no group, and runs with a new group and no setup
InitLive ==
    /\ Start(1 .. MaxCount, {LinuxAmd64})
    /\ activeGroup = NilGroup
    /\ setup = ~newGroup
LiveSpec == InitLive /\ [][Next]_vars /\ Fairness

\* ----------------------------------------------------------- vocabulary
\* the tasks of this invocation
Launched == { t \in Tasks : t < count }
\* task t ended with the error of its creation request or of its stream
CreationFailed(t) ==
    pc[t] = "done" /\ taskErr[t] \in {CreateInstanceError(t), RecvError(t)}
SomeFailed == \E t \in Launched : pc[t] = "done" /\ taskErr[t] # Nil
\* task t has left the update loop by end-of-data and printed / appended
PastPrint(t) ==
    pc[t] \in {"lock", "locked", "setup", "run"} \/ (pc[t] = "done" /\ ~CreationFailed(t))
PastAppend(t) ==
    pc[t] \in {"setup", "run"} \/ (pc[t] = "done" /\ ~CreationFailed(t))
\* the Instances of the group when the tasks start
InitialInstances == IF newGroup THEN <<>> ELSE activeGroup.Instances
\* every stream delivered a COMPLETE update, with an ID of its own
DistinctIDs ==
    /\ \A t \in Launched : inst[t] # ""
    /\ \A t, u \in Launched : t # u => inst[t] # inst[u]
\* task t ran its whole pipeline and returned nil
TaskSucceeded(t) ==
    /\ pc[t] = "done"
    /\ taskErr[t] = Nil
    /\ setup => /\ pushCalls[t] = <<PushCall(t, Nil)>>
                /\ runCalls[t] = <<RunCall(t, Nil)>>

\* ------------------------------------------------------------------ C1
\* C1: when every task succeeds with an instance ID of its own and the group
\* was supplied empty, the group handed to storeGroup holds exactly count
\* entries, each task's ID exactly once, whatever the order of completion.
C1_StoredGroupHoldsEachIDOnce ==
    (Len(stored) >= 1 /\ InitialInstances = <<>> /\ DistinctIDs)
        => /\ Len(stored[1]) = count
           /\ \A t \in Launched : Count(stored[1], inst[t]) = 1

C1_Witness ==
    /\ count >= 2 /\ newGroup /\ setup /\ DistinctIDs
    /\ Len(stored) = 1 /\ Len(stored[1]) = count

\* ------------------------------------------------------------------ C2
\* C2 as stated: create returns nil only if every task observed a COMPLETE
\* update and, with setup, its push and run succeeded.
C2_NilOnlyIfEveryTaskSawComplete ==
    (mpc = "done" /\ ret = Nil)
        => \A t \in Launched : TaskSucceeded(t) /\ inst[t] # ""

\* C2 amended: create returns nil only if every one of the count tasks returned
\* nil, that is its stream ended with end-of-data without a receive error
\* (with or without a COMPLETE update) and, with setup, its push and its run
\* both succeeded; in every other run create returns a non-nil error.
C2_NilOnlyIfEveryTaskReturnedNil ==
    (mpc = "done" /\ ret = Nil)
        => next = count /\ \A t \in Launched : TaskSucceeded(t)

C2_Witness ==
    /\ mpc = "done" /\ ret = Nil /\ count >= 2 /\ setup
    /\ \E t \in Launched : inst[t] = ""

\* ------------------------------------------------------------------ C3
\* C3: if the creation request or the stream of any task fails, create returns
\* a non-nil error and at most count lines are printed to standard output.
C3_CreationFailureReturnsError ==
    (\E t \in Launched : CreationFailed(t))
        => /\ BagCardinality(stdout) <= count
           /\ mpc = "done" => ret # Nil

C3_Witness ==
    /\ mpc = "done" /\ ret # Nil
    /\ \E t \in Launched : CreationFailed(t)
    /\ BagCardinality(stdout) >= 1

C5_InstancesAppendOnly ==
    [][IsPrefix(group.Instances, group.Instances')]_vars

C5_Witness ==
    /\ SomeFailed /\ cancelled /\ ~newGroup
    /\ Len(group.Instances) >= 2
    /\ group.Instances[1] = "gomote-old"
    /\ \E t \in Launched : pc[t] = "locked"

\* ------------------------------------------------------------------ C6
\* C6 as stated: doPush and doRun are called iff setup is set: never without
\* setup, and with setup by every task whose creation completed.
C6_SetupCallsBothForEveryCreated ==
    \A t \in Launched :
        /\ ~setup => pushCalls[t] = <<>> /\ runCalls[t] = <<>>
        /\ (setup /\ pc[t] = "done" /\ ~CreationFailed(t))
              => Len(pushCalls[t]) = 1 /\ Len(runCalls[t]) = 1

\* C6 amended: doPush and doRun are called only if setup is set: never without
\* setup; with setup a task whose creation completed calls doPush once for
\* its instance unless getGOROOT failed, and calls doRun once for its instance
\* exactly when its doPush returned no error.
C6_SetupCallsPushThenRun ==
    \A t \in Launched :
        /\ ~setup => pushCalls[t] = <<>> /\ runCalls[t] = <<>>
        /\ (setup /\ pc[t] = "done" /\ ~CreationFailed(t))
              => /\ taskErr[t] # GetGOROOTError
                      => Len(pushCalls[t]) = 1 /\ pushCalls[t][1].inst = inst[t]
                 /\ taskErr[t] = GetGOROOTError => pushCalls[t] = <<>>
                 /\ Len(runCalls[t]) =
                      (IF pushCalls[t] # <<>> /\ pushCalls[t][1].err = Nil THEN 1 ELSE 0)
        /\ runCalls[t] # <<>> => runCalls[t][1].inst = inst[t]
        /\ (pushCalls[t] # <<>> \/ runCalls[t] # <<>>)
              => pc[t] \in {"run", "done"} /\ ~CreationFailed(t)

C6_Witness ==
    \E t \in Launched :
        /\ setup /\ pc[t] = "done" /\ inst[t] # ""
        /\ Len(pushCalls[t]) = 1 /\ pushCalls[t][1].err = PushError
        /\ runCalls[t] = <<>>

\* ------------------------------------------------------------------ C7
\* the builder-type name has the letters w-i-n-d-o-w-s at consecutive positions
HasWindowsMarker(name) ==
    \E k \in 1 .. Len(name) :
        /\ k + Len(windows) - 1 <= Len(name)
        /\ \A j \in 1 .. Len(windows) : name[k + j - 1] = windows[j]

\* C7: every doRun call gets go/src/make.bat exactly when the builder-type name
\* contains "windows", go/src/make.bash otherwise, and an empty argument list.
C7_ScriptFollowsWindowsMarker ==
    \A t \in Tasks : \A k \in 1 .. Len(runCalls[t]) :
        /\ HasWindowsMarker(builderType) => runCalls[t][k].cmd = "go/src/make.bat"
        /\ ~HasWindowsMarker(builderType) => runCalls[t][k].cmd = "go/src/make.bash"
        /\ runCalls[t][k].args = <<>>

C7_Witness ==
    /\ builderType = <<"l", "i", "n", "u", "x", "-">> \o windows
    /\ runCalls[0] # <<>>
    /\ runCalls[0][1].cmd = "go/src/make.bat"

\* ------------------------------------------------------------------ C8
\* C8: every error of a task's creation request or stream carries the 1-based
\* index of the task, and is what create returns when it is the first failure.
C8_CreationErrorsCarryTaskIndex ==
    \A t \in Launched :
        CreationFailed(t)
            => /\ taskErr[t].index = t + 1
               /\ (mpc = "done" /\ egErr = taskErr[t]) => ret = taskErr[t]

\* ------------------------------------------------------------------ C9
\* C9: a task whose stream ends without a COMPLETE update goes on without an
\* error: it prints an empty line, appends "" to the group if there is one,
\* returns nil when no setup is asked for, and does not cancel the context.
C9_EndOfDataWithoutCompleteIsSilent ==
    /\ CopiesIn("", stdout) = Cardinality({ t \in Launched : inst[t] = "" /\ PastPrint(t) })
    /\ group.present
          => Count(group.Instances, "")
               = Cardinality({ t \in Launched : inst[t] = "" /\ PastAppend(t) })
    /\ \A t \in Launched :
          (inst[t] = "" /\ pc[t] = "done" /\ ~CreationFailed(t) /\ ~setup)
              => taskErr[t] = Nil
    /\ (~setup /\ \A t \in Launched : ~CreationFailed(t))
          => egErr = Nil /\ (cancelled => mpc \in {"store", "done"})

C9_Witness ==
    /\ mpc = "wait" /\ ~cancelled /\ group.present /\ AllDone /\ next = count
    /\ \E t \in Launched : inst[t] = "" /\ taskErr[t] = Nil /\ pc[t] = "done"
    /\ Count(group.Instances, "") >= 1
    /\ CopiesIn("", stdout) >= 1

\* ----------------------------------------------------------------- C10
\* C10: once a task has returned an error the context is cancelled, and, the
\* blocking calls returning once the context is cancelled, every task
\* terminates and create returns.
C10_FailureCancelsAndCreateReturns ==
    /\ [](SomeFailed => cancelled)
    /\ (SomeFailed ~> (mpc = "done" /\ AllDone))

C10_Witness ==
    /\ mpc = "done" /\ count >= 2
    /\ \E t, u \in Launched :
          /\ t # u
          /\ taskErr[t] = GetGOROOTError
          /\ taskErr[u] = RecvError(u)
          /\ egErr = taskErr[t]

\* ----------------------------------------------------------------- C11
\* C11: create gets past eg.Wait only when all count tasks have returned, and
\* the error it returns is that of the task that failed first: the recorded
\* error is set by the first failure, never replaced, and returned as it is.
C11_JoinThenFirstErrorWins ==
    /\ [](mpc \in {"store", "done"} /\ next > 0 => next = count /\ AllDone)
    /\ [](egErr = Nil <=> ~SomeFailed)
    /\ [][egErr # Nil => egErr' = egErr]_vars
    /\ [](mpc = "done" /\ SomeFailed => ret = egErr)

C11_Witness ==
    /\ mpc = "done" /\ count >= 2
    /\ \E t, u \in Launched :
          /\ taskErr[t] = RecvError(t)
          /\ taskErr[u] = RecvError(u)
          /\ t < u
          /\ ret = taskErr[u]

\* ----------------------------------------------------------------- C12
\* C12: storeGroup is called at most once, only when no task is running any
\* more, and group.Instances stays as it was handed over; it is called exactly
\* once when all tasks succeeded with a group, and never with a nil group.
C12_StoreGroupOnceAfterAllTasks ==
    /\ Len(stored) <= 1
    /\ stored # <<>>
          => /\ group.present
             /\ next = count /\ AllDone
             /\ mpc = "done"
             /\ stored[1] = group.Instances
    /\ ~group.present => stored = <<>>
    /\ (mpc = "done" /\ group.present /\ \A t \in Launched : taskErr[t] = Nil)
          => Len(stored) = 1

C12_Witness ==
    /\ mpc = "done" /\ count >= 2 /\ ~newGroup
    /\ Len(stored) = 1
    /\ Len(stored[1]) = count + 1

\* ----------------------------------------------------------------- C13
\* C13: with an active group legacyCreate returns its error at once: no
\* argument is parsed, no coordinator client is created, no creation request
\* is made and nothing is printed.
C13_LegacyRejectsActiveGroup ==
    (activeGroup.present /\ lpc # "check")
        => /\ lpc = "done"
           /\ lret = LegacyGroupError
           /\ ~lparsed
           /\ lclients = 0
           /\ lrequests = <<>>
           /\ lout = <<>>

C13_Witness ==
    /\ activeGroup.present /\ lpc = "done" /\ lret = LegacyGroupError
    /\ nargs = 1

\* ----------------------------------------------------------------- C14
\* C14 as stated: once a COMPLETE update is recorded the task is out of the
\* update loop, and no later stream event makes it fail.
C14_CompleteLeavesTheLoop ==
    \A t \in Launched :
        inst[t] # "" => pc[t] # "recv" /\ ~(pc[t] = "done" /\ taskErr[t] = RecvError(t))

\* C14 amended: a COMPLETE update records the instance ID and the task goes on
\* reading: the recorded ID changes only inside the loop, by a COMPLETE update;
\* the loop is left only by end-of-data (to the print, without error) or by a
\* receive error (the task fails, also after a COMPLETE); once the loop is left
\* the recorded ID never changes.
C14_CompleteStaysInTheLoop ==
    [][\A t \in Tasks :
        /\ inst'[t] # inst[t]
              => pc[t] = "recv" /\ pc'[t] = "recv" /\ inst'[t] \in InstanceIDs
        /\ (pc[t] = "recv" /\ pc'[t] # "recv")
              => \/ pc'[t] = "print" /\ taskErr'[t] = Nil
                 \/ pc'[t] = "done" /\ taskErr'[t] = RecvError(t)]_vars

C14_Witness ==
    \E t \in Launched :
        pc[t] = "done" /\ inst[t] # "" /\ taskErr[t] = RecvError(t)

\* ----------------------------------------------------------------- C15
\* the tasks between groupMu.Lock and groupMu.Unlock
Holders == { t \in Launched : pc[t] = "locked" }

\* C15: at most one task is between Lock and Unlock, the mutex is held exactly
\* while a task is there (so never by a task waiting in stream.Recv, doPush or
\* doRun), and no append is lost: group.Instances has grown by one entry for
\* every task that has passed the append.
C15_AppendsAreExclusiveAndKept ==
    /\ Cardinality(Holders) <= 1
    /\ groupMu <=> Holders # {}
    /\ \A t \in Launched : pc[t] \in {"recv", "setup", "run"} => t \notin Holders
    /\ (group.present /\ mpc \notin {"mkdir", "group"})
          => Len(group.Instances)
               = Len(InitialInstances) + Cardinality({ t \in Launched : PastAppend(t) })

C15_Witness ==
    /\ groupMu /\ count >= 2
    /\ \E t, u \in Launched :
          /\ pc[t] = "locked" /\ pc[u] = "lock"
    /\ Len(group.Instances) = Len(InitialInstances)

\* ----------------------------------------------------------------- C16
\* the entries the tasks have appended to group.Instances
Appended == SubSeq(group.Instances, Len(InitialInstances) + 1, Len(group.Instances))

\* C16: a task calls doRun only after its doPush returned nil for the same
\* instance, and calls either only after it printed and appended the ID; a
\* failed push or run ends the task with that error and the printed line and
\* the appended entry stay.
C16_PushThenRunAfterRecording ==
    /\ \A t \in Launched :
          /\ runCalls[t] # <<>>
                => /\ Len(pushCalls[t]) = 1
                   /\ pushCalls[t][1].err = Nil
                   /\ pushCalls[t][1].inst = runCalls[t][1].inst
          /\ pushCalls[t] # <<>>
                => /\ PastAppend(t)
                   /\ pushCalls[t][1].inst = inst[t]
                   /\ CopiesIn(inst[t], stdout) >= 1
                   /\ group.present => Count(Appended, inst[t]) >= 1
          /\ (pushCalls[t] # <<>> /\ pushCalls[t][1].err # Nil)
                => pc[t] = "done" /\ taskErr[t] = PushError
          /\ (runCalls[t] # <<>> /\ runCalls[t][1].err # Nil)
                => pc[t] = "done" /\ taskErr[t] = RunError
    /\ \A x \in InstanceIDs \cup {""} :
          /\ CopiesIn(x, stdout)
                = Cardinality({ t \in Launched : PastPrint(t) /\ inst[t] = x })
          /\ (group.present /\ mpc \notin {"mkdir", "group"})
                => Count(Appended, x)
                     = Cardinality({ t \in Launched : PastAppend(t) /\ inst[t] = x })

C16_Witness ==
    /\ group.present /\ setup /\ mpc = "done"
    /\ \E t \in Launched :
          /\ taskErr[t] = RunError /\ inst[t] # ""
          /\ Count(Appended, inst[t]) >= 1
          /\ CopiesIn(inst[t], stdout) >= 1

\* ----------------------------------------------------------------- C17
\* C17: the detailed-progress argument of every doPush and doRun call is true
\* when count is 1 and false when count is larger, and the two calls of one
\* task get the same value.
C17_DetailedProgressOnlyForOne ==
    \A t \in Launched :
        /\ \A k \in 1 .. Len(pushCalls[t]) :
              /\ count = 1 => pushCalls[t][k].detailedProgress = TRUE
              /\ count > 1 => pushCalls[t][k].detailedProgress = FALSE
        /\ \A k \in 1 .. Len(runCalls[t]) :
              /\ count = 1 => runCalls[t][k].detailedProgress = TRUE
              /\ count > 1 => runCalls[t][k].detailedProgress = FALSE
        /\ (pushCalls[t] # <<>> /\ runCalls[t] # <<>>)
              => pushCalls[t][1].detailedProgress = runCalls[t][1].detailedProgress

C17_Witness ==
    /\ count > 1
    /\ \E t \in Launched :
          /\ pushCalls[t] # <<>> /\ runCalls[t] # <<>>
          /\ ~pushCalls[t][1].detailedProgress
          /\ ~runCalls[t][1].detailedProgress

\* ----------------------------------------------------------------- C18
\* C18: the launch loop starts exactly the tasks 0 .. count-1, each once, and
\* each task issues one creation request and no more, so count requests are
\* issued in all, also when an earlier task has failed by then.
C18_CountTasksCountRequests ==
    /\ \A t \in Tasks : pc[t] # "start" <=> t < next
    /\ next <= count
    /\ created = Cardinality({ t \in Launched : pc[t] \notin {"start", "create"} })
    /\ mpc \in {"wait", "store"} => next = count
    /\ (mpc = "done" /\ ret \notin {MkdirTempError, CreateGroupError}) => next = count
    /\ (next = count /\ AllDone) => created = count

C18_Witness ==
    /\ mpc = "done" /\ count >= 2 /\ created = count
    /\ taskErr[0] = CreateInstanceError(0)
    /\ egErr = taskErr[0]
    /\ \A t \in Launched : t # 0 => taskErr[t] = Nil /\ inst[t] # ""

\* ----------------------------------------------------------------- C19
\* C19: one line is printed per task that got past the print and one entry is
\* appended per task that got past the append, a task appends only after its
\* print, and a task whose creation failed does neither; so every appended
\* entry has its printed line, and no more than count entries are appended.
C19_AtMostOnePrintThenOneAppend ==
    /\ BagCardinality(stdout) = Cardinality({ t \in Launched : PastPrint(t) })
    /\ \A t \in Launched :
          /\ CreationFailed(t) => ~PastPrint(t) /\ ~PastAppend(t)
          /\ pc[t] \in {"start", "create", "recv", "print"} => ~PastPrint(t)
          /\ pc[t] \in {"lock", "locked"} => PastPrint(t) /\ ~PastAppend(t)
    /\ (group.present /\ mpc \notin {"mkdir", "group"})
          => /\ Len(Appended) = Cardinality({ t \in Launched : PastAppend(t) })
             /\ \A x \in InstanceIDs \cup {""} : Count(Appended, x) <= CopiesIn(x, stdout)
             /\ Len(Appended) <= BagCardinality(stdout)
             /\ Len(Appended) <= count
    /\ BagCardinality(stdout) <= count

C19_Witness ==
    /\ group.present /\ count >= 2
    /\ \E t, u \in Launched :
          /\ CreationFailed(t)
          /\ PastAppend(u) /\ inst[u] # ""
          /\ Appended = <<inst[u]>>
          /\ CopiesIn(inst[u], stdout) = 1
    /\ BagCardinality(stdout) = 1

\* ----------------------------------------------------------------- C20
\* a comes before b in the lexicographic order of the bytes: at the first
\* position where they differ a has the smaller byte, or a ends there
LexBefore(a, b) ==
    \E k \in 1 .. Len(b) :
        /\ k <= Len(a) + 1
        /\ \A j \in 1 .. k - 1 : a[j] = b[j]
        /\ k = Len(a) + 1 \/ Ord(a[k]) < Ord(b[k])

\* the names of the catalog entries builders() is to keep
Kept ==
    { b \in DOMAIN resj.Builders :
        /\ ~(Len(b) >= Len(MiscCompile)
              /\ \A j \in 1 .. Len(MiscCompile) : b[j] = MiscCompile[j])
        /\ \E h \in DOMAIN resj.Hosts :
              /\ h = resj.Builders[b]
              /\ \/ resj.Hosts[h].IsReverse
                 \/ resj.Hosts[h].ContainerImage # ""
                 \/ resj.Hosts[h].VMImage # "" }

\* C20: what builders() returns holds exactly the catalog entries whose name
\* does not start with "misc-compile" and whose host is listed with a reverse
\* marker, a container image or a VM image, each once with the host's
\* IsReverse and ExpectNum, in strictly ascending lexicographic order of name.
C20_BuildersFilteredAndSorted ==
    bpc = "done"
        => /\ { bt[i].Name : i \in 1 .. Len(bt) } = Kept
           /\ Len(bt) = Cardinality(Kept)
           /\ \A i, j \in 1 .. Len(bt) : i < j => LexBefore(bt[i].Name, bt[j].Name)
           /\ \A i \in 1 .. Len(bt) :
                 LET hi == resj.Hosts[resj.Builders[bt[i].Name]]
                 IN  bt[i] = [Name |-> bt[i].Name,
                              IsReverse |-> hi.IsReverse,
                              ExpectNum |-> hi.ExpectNum]

C20_Witness ==
    /\ bpc = "done"
    /\ Cardinality(DOMAIN resj.Builders) = 3
    /\ MiscCompile \o <<"-", "j", "s">> \in DOMAIN resj.Builders
    /\ resj.Builders[MiscCompile \o <<"-", "j", "s">>] = "host-reverse"
    /\ Len(bt) = 2
    /\ bt[1].Name = <<"j", "s">> /\ bt[1].IsReverse
    /\ bt[2].Name = <<"j", "s", "-", "c">> /\ ~bt[2].IsReverse
====
